---- MODULE Spec2Model ----
(***************************************************************************)
(* Neyman-Pearson feature selection (class npfs of src/src/npfs.py) as a   *)
(* state machine.  One npfs object is modelled: its constructor arguments, *)
(* the attributes fit() retains on it, the local variables of a running    *)
(* fit(), the process-global numpy random state, and the worker pool of    *)
(* the parallel branch.                                                    *)
(*                                                                         *)
(* Real numbers are exact rationals <<numerator, denominator>>; a float    *)
(* division by zero (numpy yields inf or nan, with a warning) is kept as a *)
(* frequency vector whose divisor is 0.                                    *)
(*                                                                         *)
(* fit() is a sequence of steps: the validation and set-up, one step for   *)
(* each pass of a loop, the steps of the pool's workers, and the threshold *)
(* computation with the return.  fs_method names a method FEAST has.  The  *)
(* pool starts its workers by fork, the only start method of Pool on the   *)
(* POSIX systems this code runs on, and hands the tasks out one at a time  *)
(* (pool.map's chunk size is 1 unless n_bootstraps exceeds four times the  *)
(* worker count).                                                          *)
(***************************************************************************)
EXTENDS Integers, Sequences, FiniteSets, TLC

\* ------------------------------------------------------------- bounds
MaxFeatures == 2      \* columns of the data handed to fit
MaxBootstraps == 2    \* n_bootstraps given to the constructor
MaxObs == 2           \* rows of the data / length of the labels
MaxFits == 1          \* fit calls that pass __check_data, per object
MaxWorkers == 2       \* worker count given as parallel

\* ------------------------------------------------------ sentinel values
None == 0             \* parallel=None (the constructor's default)
Unset == -1           \* an attribute the object does not (yet) have
Idle == -1            \* a pool worker holding no task

\* --------------------------------------------------------- small helpers
range(n) == 0 .. (n - 1)

Less(x, y) == x[1] * y[2] < y[1] * x[2]

Abs(x) == IF x < 0 THEN -x ELSE x

RECURSIVE Pow(_, _)
Pow(a, e) == IF e = 0 THEN 1 ELSE a * Pow(a, e - 1)

RECURSIVE Choose(_, _)
Choose(n, k) == IF k = 0 \/ k = n THEN 1 ELSE Choose(n - 1, k - 1) + Choose(n - 1, k)

RECURSIVE SumOver(_, _)
SumOver(f, S) ==
  IF S = {} THEN 0 ELSE LET x == CHOOSE y \in S : TRUE IN f[x] + SumOver(f, S \ {x})

\* ---------------------------------------------------- constructor inputs
Alphas == {<<1, 4>>, <<1, 2>>}
Betas == {<<0, 1>>, <<1, 2>>}
MinImprovs == {<<0, 1>>, <<1, 2>>}
Seeds == {0, 1}

VARIABLES
  n_select, n_bootstraps, alpha, beta, parallel, min_improv, early_stopping,
  selected_features, Bernoulli_matrix, run_time, n_observations, n_features,
  data, labels,
  pc, result, fits,
  Z, b, p1_old, p1, sfs, z, delta,
  np_random, wrng, wtask, taskq, outqueue,
  calls, recorded

config == <<n_select, n_bootstraps, alpha, beta, parallel, min_improv, early_stopping>>
retained == <<selected_features, Bernoulli_matrix, run_time, n_observations,
              n_features, data, labels>>
locals == <<Z, b, p1_old, p1, sfs>>
last == <<z, delta>>
pool == <<wrng, wtask, taskq, outqueue>>
vars == <<config, retained, pc, result, fits, locals, last, np_random, pool, calls,
          recorded>>

\* ------------------------------------------------------------ __init__
\* line 43: early stopping is on exactly when min_improv is not 0
EarlyStoppingFlag(mi) == mi[1] # 0

NoMatrix == [i \in {} |-> 0]
NoVector == [i \in {} |-> 0]

\* no fit is running: its local variables and its pool do not exist
NoLocals ==
  /\ Z = NoMatrix /\ b = 0
  /\ p1_old = [num |-> NoVector, den |-> 1]
  /\ p1 = [num |-> NoVector, den |-> 1]
  /\ sfs = <<>>

NoPool == wrng = <<>> /\ wtask = <<>> /\ taskq = 0 /\ outqueue = <<>>

\* lines 35-46.  calls and recorded observe the latest fit call: the calls
\* of boot_iteration it made and the writes it made to each column of Z.
InitConfig(ns, nb, al, be, par, mi) ==
  /\ n_select = ns /\ n_bootstraps = nb /\ alpha = al /\ beta = be
  /\ parallel = par /\ min_improv = mi
  /\ early_stopping = EarlyStoppingFlag(mi)
  /\ selected_features = {}
  /\ Bernoulli_matrix = NoMatrix
  /\ run_time = Unset /\ n_observations = Unset /\ n_features = Unset
  /\ data = <<Unset, Unset>> /\ labels = Unset
  /\ pc = "idle" /\ result = "none" /\ fits = 0
  /\ NoLocals
  /\ z = NoVector /\ delta = Unset
  /\ NoPool
  /\ calls = 0 /\ recorded = NoVector

\* the constructor arguments are drawn from the given sets
InitWith(NS, NB, AL, BE, PAR, MI, SD) ==
  /\ np_random \in SD
  /\ \E ns \in NS, nb \in NB, al \in AL, be \in BE, par \in PAR, mi \in MI :
       InitConfig(ns, nb, al, be, par, mi)

Init ==
  InitWith(1 .. MaxFeatures, 1 .. MaxBootstraps, Alphas, Betas,
           {None} \cup (1 .. MaxWorkers), MinImprovs, Seeds)

\* -------------------------------------------------------- __check_data
\* the validation without its length test
check_data_nolength(dataIsArray, labelsIsArray, rows, labelLen) ==
  IF ~dataIsArray THEN "TypeError"
  ELSE IF ~labelsIsArray THEN "TypeError"
  ELSE "ok"

\* lines 123-129
check_data(dataIsArray, labelsIsArray, rows, labelLen) ==
  IF ~dataIsArray THEN "TypeError"
  ELSE IF ~labelsIsArray THEN "TypeError"
  ELSE IF rows # labelLen THEN "LengthError"
  ELSE "ok"

\* ------------------------------------------------------ boot_iteration
\* np.random is abstracted to a linear congruential generator of period 8:
\* the state after one draw
RngNext(s) == (5 * s + 3) % 8

\* line 139: randint(0, n_observations, n_observations) makes n draws; the
\* bootstrap sample is a function of the state it starts from.
RECURSIVE RngAdvance(_, _)
RngAdvance(s, n) == IF n = 0 THEN s ELSE RngAdvance(RngNext(s), n - 1)

\* line 142: the FEAST method is external; it returns n_select distinct
\* feature indices of the sample it is given.
SelectedSets(nf, ns) == {S \in SUBSET range(nf) : Cardinality(S) = ns}

\* ------------------------------------------------------- the matrix Z
Zeros(nf, nb) == [i \in range(nf) |-> [k \in range(nb) |-> 0]]

\* Z[sf, col] = 1
Mark(Zm, sf, col) ==
  [i \in DOMAIN Zm |-> [k \in DOMAIN Zm[i] |->
      IF i \in sf /\ k = col THEN 1 ELSE Zm[i][k]]]

\* Z.sum(axis=1)
RowSums(Zm) == [i \in DOMAIN Zm |-> SumOver(Zm[i], DOMAIN Zm[i])]

\* a loop that leaves out its last pass
LoopPcShort(k, n, body, after) == IF k \in range(n - 1) THEN body ELSE after

\* `for k in range(n)`, the loop position after `k`: another pass of `body`,
\* or the code after the loop
LoopPc(k, n, body, after) == IF k \in range(n) THEN body ELSE after

\* lines 85-87: d = mean(|p1 - p1_old|) < min_improv.  A vector divided by
\* 0 holds inf/nan, d is then inf or nan and the comparison is False.
Converged(p, q, mi, nf) ==
  /\ p.den # 0
  /\ q.den # 0
  /\ LET diff == [i \in DOMAIN p.num |-> Abs(p.num[i] * q.den - q.num[i] * p.den)]
     IN SumOver(diff, DOMAIN diff) * mi[2] < mi[1] * p.den * q.den * nf

\* ------------------------------------------------- threshold (98-110)
Probability(ns, nf, be) == <<ns * be[2] + be[1] * nf, nf * be[2]>>

RECURSIVE CdfNum(_, _, _)
\* numerator of P(X <= k), X ~ Binomial(n, p), over the denominator p[2]^n
CdfNum(k, n, p) ==
  IF k < 0 THEN 0
  ELSE Choose(n, k) * Pow(p[1], k) * Pow(p[2] - p[1], n - k) + CdfNum(k - 1, n, p)

CdfAtLeast(k, n, p, q) == CdfNum(k, n, p) * q[2] >= q[1] * Pow(p[2], n)

\* scipy.stats.binom.ppf(q, n, p): the least k with P(X <= k) >= q
ppf(q, n, p) ==
  CHOOSE k \in 0 .. n : CdfAtLeast(k, n, p, q) /\ \A j \in 0 .. (k - 1) : ~CdfAtLeast(j, n, p, q)

\* the comparison of line 109 made non-strict
RelevantOrEqual(zk, dl) == zk >= dl

\* line 109
Relevant(zk, dl) == zk > dl

\* line 112: the retained matrix is the array Z itself (entries as rationals)
Retain(Zm) == [i \in DOMAIN Zm |-> [k \in DOMAIN Zm[i] |-> <<Zm[i][k], 1>>]]

\* ------------------------------------------------------------- fit
\* lines 58-74: validation, then the attributes and locals set before the
\* branch on the execution mode.  `limit` bounds the calls that pass the
\* validation.
FitBegin(dataIsArray, labelsIsArray, rows, cols, labelLen, limit) ==
  /\ pc = "idle"
  /\ LET chk == check_data(dataIsArray, labelsIsArray, rows, labelLen) IN
     IF chk # "ok"
     THEN /\ result' = chk
          /\ calls' = 0
          /\ recorded' = NoVector
          /\ UNCHANGED <<config, retained, pc, fits, locals, last, np_random, pool>>
     ELSE /\ fits < limit
          /\ fits' = fits + 1
          /\ result' = "running"
          /\ n_observations' = rows
          /\ n_features' = cols
          /\ data' = <<rows, cols>>
          /\ labels' = labelLen
          /\ Z' = Zeros(cols, n_bootstraps)
          /\ b' = 0
          /\ p1_old' = [num |-> [i \in range(cols) |-> 0], den |-> 1]
          /\ p1' = [num |-> [i \in range(cols) |-> 0], den |-> 1]
          /\ sfs' = <<>>
          /\ z' = NoVector
          /\ delta' = Unset
          /\ calls' = 0
          /\ recorded' = [k \in range(n_bootstraps) |-> 0]
          /\ pc' = IF parallel = None
                   THEN IF early_stopping = FALSE
                        THEN LoopPc(0, n_bootstraps, "seq", "threshold")
                        ELSE LoopPc(0, n_bootstraps, "early", "threshold")
                   ELSE "pool"
          /\ UNCHANGED <<config, selected_features, Bernoulli_matrix, run_time,
                         np_random, pool>>

\* lines 76-78: one pass of the loop without early stopping
SeqTrial ==
  /\ pc = "seq"
  /\ \E sf \in SelectedSets(n_features, n_select) :
       /\ Z' = Mark(Z, sf, b)
       /\ recorded' = [recorded EXCEPT ![b] = @ + 1]
  /\ np_random' = RngAdvance(np_random, n_observations)
  /\ calls' = calls + 1
  /\ b' = b + 1
  /\ pc' = LoopPc(b + 1, n_bootstraps, "seq", "threshold")
  /\ UNCHANGED <<config, retained, result, fits, p1_old, p1, sfs, last, pool>>

\* lines 81-90: one pass of the loop with early stopping
EarlyTrial ==
  /\ pc = "early"
  /\ \E sf \in SelectedSets(n_features, n_select) :
       LET Z1 == Mark(Z, sf, b)
           p1n == [num |-> RowSums(Z1), den |-> b]
       IN /\ Z' = Z1
          /\ recorded' = [recorded EXCEPT ![b] = @ + 1]
          /\ p1' = p1n
          /\ IF Converged(p1n, p1_old, min_improv, n_features)
             THEN /\ run_time' = b
                  /\ pc' = "threshold"
                  /\ UNCHANGED <<b, p1_old>>
             ELSE /\ p1_old' = p1n
                  /\ b' = b + 1
                  /\ pc' = LoopPc(b + 1, n_bootstraps, "early", "threshold")
                  /\ UNCHANGED run_time
  /\ np_random' = RngAdvance(np_random, n_observations)
  /\ calls' = calls + 1
  /\ UNCHANGED <<config, selected_features, Bernoulli_matrix, n_observations,
                 n_features, data, labels, result, fits, sfs, last, pool>>

\* line 93 and the dispatch of line 94: Pool forks the workers, each a copy
\* of the parent process and so of its numpy random state; the tasks are
\* queued in index order.
PoolCreate ==
  /\ pc = "pool"
  /\ wrng' = [w \in 1 .. parallel |-> np_random]
  /\ wtask' = [w \in 1 .. parallel |-> Idle]
  /\ taskq' = 0
  /\ outqueue' = <<>>
  /\ pc' = "map"
  /\ UNCHANGED <<config, retained, result, fits, locals, last, np_random, calls,
                 recorded>>

\* a worker takes the next task off the queue
WorkerTake(w) ==
  /\ pc = "map"
  /\ wtask[w] = Idle
  /\ taskq \in range(n_bootstraps)
  /\ wtask' = [wtask EXCEPT ![w] = taskq]
  /\ taskq' = taskq + 1
  /\ UNCHANGED <<config, retained, pc, result, fits, locals, last, np_random, wrng,
                 outqueue, calls, recorded>>

\* lines 171-176: the worker runs boot_iteration on its copy of the object
\* and puts (task index, result) on the result queue
WorkerRun(w) ==
  /\ pc = "map"
  /\ wtask[w] # Idle
  /\ \E sf \in SelectedSets(n_features, n_select) :
       outqueue' = Append(outqueue, <<wtask[w], sf>>)
  /\ wrng' = [wrng EXCEPT ![w] = RngAdvance(@, n_observations)]
  /\ wtask' = [wtask EXCEPT ![w] = Idle]
  /\ calls' = calls + 1
  /\ UNCHANGED <<config, retained, pc, result, fits, locals, last, np_random, taskq,
                 recorded>>

\* the result queue's entry for task x
ResultOf(out, x) == out[CHOOSE e \in 1 .. Len(out) : out[e][1] = x][2]

\* the results in the order the workers finished them (imap_unordered)
pool_map_unordered(out, n) == [x \in 1 .. n |-> out[x][2]]

\* pool.map returns the results as a list in the order of the tasks
pool_map(out, n) == [x \in 1 .. n |-> ResultOf(out, x - 1)]

\* line 94: pool.map returns once every task has a result
MapReturn ==
  /\ pc = "map"
  /\ Len(outqueue) = n_bootstraps
  /\ sfs' = pool_map(outqueue, n_bootstraps)
  /\ b' = 0
  /\ pc' = LoopPc(0, n_bootstraps, "assemble", "threshold")
  /\ UNCHANGED <<config, retained, result, fits, Z, p1_old, p1, last, np_random,
                 pool, calls, recorded>>

\* lines 95-96: one pass of the coordinator's loop over the results
Assemble ==
  /\ pc = "assemble"
  /\ Z' = Mark(Z, sfs[b + 1], b)
  /\ recorded' = [recorded EXCEPT ![b] = @ + 1]
  /\ b' = b + 1
  /\ pc' = LoopPc(b + 1, Len(sfs), "assemble", "threshold")
  /\ UNCHANGED <<config, retained, result, fits, p1_old, p1, sfs, last, np_random,
                 pool, calls>>

\* lines 98-114, and the return or raise that ends the call: the local
\* variables and the pool are gone afterwards.  z and delta keep the last
\* values the call computed.
Threshold ==
  /\ pc = "threshold"
  /\ pc' = "idle"
  /\ LET zs == RowSums(Z)
         p == Probability(n_select, n_features, beta)
     IN /\ z' = zs
        /\ IF Less(<<1, 1>>, p)
           THEN /\ result' = "ValueError"
                /\ UNCHANGED <<delta, selected_features, Bernoulli_matrix>>
           ELSE LET dl == ppf(<<alpha[2] - alpha[1], alpha[2]>>, n_bootstraps, p)
                IN /\ delta' = dl
                   /\ selected_features' = {k \in range(n_features) : Relevant(zs[k], dl)}
                   /\ Bernoulli_matrix' = Retain(Z)
                   /\ result' = "ok"
  /\ Z' = NoMatrix /\ b' = 0 /\ sfs' = <<>>
  /\ p1_old' = [num |-> NoVector, den |-> 1]
  /\ p1' = [num |-> NoVector, den |-> 1]
  /\ wrng' = <<>> /\ wtask' = <<>> /\ taskq' = 0 /\ outqueue' = <<>>
  /\ UNCHANGED <<config, run_time, n_observations, n_features, data, labels, fits,
                 np_random, calls, recorded>>

\* lines 145-169: `matrix` is the retained array itself, not a copy
plot_bernoulli_matrix(show_npfs) ==
  /\ pc = "idle"
  /\ Bernoulli_matrix # NoMatrix
  /\ Bernoulli_matrix' =
       IF show_npfs = FALSE THEN Bernoulli_matrix
       ELSE [i \in DOMAIN Bernoulli_matrix |-> [k \in DOMAIN Bernoulli_matrix[i] |->
               IF i \in selected_features THEN <<1, 2>> ELSE Bernoulli_matrix[i][k]]]
  /\ UNCHANGED <<config, selected_features, run_time, n_observations, n_features,
                 data, labels, pc, result, fits, locals, last, np_random, pool, calls,
                 recorded>>

\* The arguments of a fit call: <<data is an ndarray, labels is an ndarray,
\* rows of data, columns of data, length of labels>>.  __check_data reads
\* nothing else of an argument it rejects for its type.
Args ==
  {<<FALSE, TRUE, 1, n_select, 1>>, <<TRUE, FALSE, 1, n_select, 1>>}
    \cup {<<TRUE, TRUE, r, c, l>> :
            r \in 1 .. MaxObs, c \in n_select .. MaxFeatures, l \in 1 .. MaxObs}

FitWith(limit) == \E a \in Args : FitBegin(a[1], a[2], a[3], a[4], a[5], limit)

Fit == FitWith(MaxFits)

\* the first fit of a fresh object (and any calls that __check_data rejects)
FirstFit == FitWith(1)

Worker == \E w \in DOMAIN wtask : WorkerTake(w) \/ WorkerRun(w)

Plot == \E show \in BOOLEAN : plot_bernoulli_matrix(show)

Next ==
  \/ Fit
  \/ SeqTrial
  \/ EarlyTrial
  \/ PoolCreate
  \/ Worker
  \/ MapReturn
  \/ Assemble
  \/ Threshold
  \/ Plot

Spec == Init /\ [][Next]_vars

\* --------------------------------------------- runs of a fixed trial count
\* The modes without a convergence check: sequential with min_improv = 0,
\* and parallel with any min_improv.
InitFixed ==
  \/ InitWith(1 .. MaxFeatures, 1 .. MaxBootstraps, {<<1, 4>>}, Betas,
              {None}, {<<0, 1>>}, {0})
  \/ InitWith(1 .. MaxFeatures, 1 .. MaxBootstraps, {<<1, 4>>}, Betas,
              1 .. MaxWorkers, MinImprovs, {0})

NextFixed ==
  \/ FirstFit
  \/ SeqTrial
  \/ PoolCreate
  \/ Worker
  \/ MapReturn
  \/ Assemble
  \/ Threshold

SpecFixed == InitFixed /\ [][NextFixed]_vars

\* --------------------------------------------------- the first fit, any mode
NextFirst ==
  \/ FirstFit
  \/ SeqTrial
  \/ EarlyTrial
  \/ PoolCreate
  \/ Worker
  \/ MapReturn
  \/ Assemble
  \/ Threshold

SpecFirst == Init /\ [][NextFirst]_vars

\* ------------------------------------- the life of a sequential object
InitSequential ==
  InitWith(1 .. MaxFeatures, 1 .. MaxBootstraps, {<<1, 4>>}, Betas, {None}, MinImprovs, {0})

NextSequential ==
  \/ Fit
  \/ SeqTrial
  \/ EarlyTrial
  \/ Threshold
  \/ Plot

SpecSequential == InitSequential /\ [][NextSequential]_vars

\* ------------------------------- sequential fits long enough to stop early
\* The first convergence check that can stop the loop is the third: four
\* trials are the least n_bootstraps an early stop falls short of.
EarlyBootstraps == 4

InitEarly ==
  InitWith(1 .. MaxFeatures, 1 .. EarlyBootstraps, Alphas, Betas, {None}, MinImprovs, {0})

NextEarly ==
  \/ Fit
  \/ SeqTrial
  \/ EarlyTrial
  \/ Threshold

SpecEarly == InitEarly /\ [][NextEarly]_vars

\* ===================================================================
\* Properties
\* ===================================================================
Prob == Probability(n_select, n_features, beta)

InvalidProbability == n_features # Unset /\ Less(<<1, 1>>, Prob)

EarlyStopMode == parallel = None /\ early_stopping = TRUE

Binary(M) == \A i \in DOMAIN M : \A k \in DOMAIN M[i] : M[i][k] \in {<<0, 1>>, <<1, 1>>}

\* column k of Zm holds a 1 exactly in the rows of sf
ColumnIs(Zm, k, sf) == \A i \in DOMAIN Zm : Zm[i][k] = (IF i \in sf THEN 1 ELSE 0)

\* P(X = n_bootstraps) = p^n_bootstraps <= alpha
TailAtMostAlpha ==
  Pow(Prob[1], n_bootstraps) * alpha[2] <= alpha[1] * Pow(Prob[2], n_bootstraps)

\* C1: with p = n_select/n_features + beta > 1, a fit call that passed the
\* validation has made no call of boot_iteration, neither while it runs nor
\* when it has ended in the ValueError.
C1_NoTrialBeforeConfigError ==
  (InvalidProbability /\ result \in {"running", "ValueError"}) => calls = 0

\* C2: a fit with early stopping that returned after fewer than
\* n_bootstraps trials computed delta as the Binomial(trials run, p)
\* quantile at 1 - alpha.
C2_DeltaOverTrialsRun ==
  (EarlyStopMode /\ result = "ok" /\ calls < n_bootstraps)
    => delta = ppf(<<alpha[2] - alpha[1], alpha[2]>>, calls, Prob)

\* C3: every entry of the retained Bernoulli matrix is 0 or 1, in every
\* state.
C3_RetainedMatrixBinary == Binary(Bernoulli_matrix)

\* C4 as stated: after a successful fit a feature selected in every one of
\* the n_bootstraps trials is among the selected features.
C4_AlwaysSelectedIsReturned ==
  result = "ok" =>
    \A i \in DOMAIN z : z[i] = n_bootstraps => i \in selected_features

\* C4 as amended: after a successful fit a feature selected in every one of
\* the n_bootstraps trials is among the selected features exactly when
\* p^n_bootstraps <= alpha.
C4_AlwaysSelectedIffTailSmall ==
  result = "ok" =>
    \A i \in DOMAIN z :
      z[i] = n_bootstraps => (i \in selected_features <=> TailAtMostAlpha)

\* a successful fit returned a feature selected in every trial, and another
\* feature was selected less often
C4_Witness ==
  /\ result = "ok"
  /\ \E i \in DOMAIN z : z[i] = n_bootstraps /\ i \in selected_features
  /\ \E i \in DOMAIN z : z[i] < n_bootstraps

\* C5: after a successful fit the retained effective trial count equals the
\* number of boot_iteration calls the fit made.
C5_RunTimeIsTrialsRun == result = "ok" => run_time = calls

\* C6: a fit without early stopping (sequential with min_improv = 0, or
\* parallel) that returned its result made exactly n_bootstraps calls of
\* boot_iteration, wrote each of the n_bootstraps columns of Z exactly once,
\* and no convergence check recorded a stop.
C6_FixedTrialCount ==
  (result = "ok" /\ (parallel # None \/ min_improv[1] = 0)) =>
    /\ calls = n_bootstraps
    /\ DOMAIN recorded = 0 .. (n_bootstraps - 1)
    /\ \A k \in DOMAIN recorded : recorded[k] = 1
    /\ run_time = Unset

\* a parallel fit with min_improv set returned after two or more trials
C6_Witness ==
  /\ result = "ok"
  /\ parallel # None
  /\ min_improv[1] # 0
  /\ calls >= 2

\* C7: a fit call whose data and labels are arrays of different lengths
\* ends in the length error with no call of boot_iteration, no matrix Z
\* built, and the retained attributes, the random state and the pool
\* unchanged.
C7_MismatchRejected ==
  [][\A a \in Args :
       (a[1] /\ a[2] /\ a[3] # a[5] /\ FitBegin(a[1], a[2], a[3], a[4], a[5], MaxFits))
         => /\ result' = "LengthError"
            /\ pc' = "idle"
            /\ calls' = 0
            /\ Z' = NoMatrix
            /\ UNCHANGED <<retained, locals, last, np_random, pool, fits>>]_vars

\* a call rejected for its lengths, on an object that retains the matrix
\* and the selection of an earlier fit
C7_Witness ==
  /\ result = "LengthError"
  /\ Bernoulli_matrix # NoMatrix
  /\ selected_features # {}
  /\ calls = 0

\* C8: while a fit with early stopping runs, after each trial the running
\* frequency vector is the row sums of Z over the number of trials made so
\* far: the divisor is that number, it is not zero, and every frequency is
\* between 0 and 1; the check after the first trial only updates p1_old and
\* does not stop the loop.
C8_FrequencyOverTrialsRun ==
  (EarlyStopMode /\ result = "running" /\ calls >= 1) =>
    /\ p1.den = calls
    /\ p1.den # 0
    /\ \A i \in DOMAIN p1.num : 0 <= p1.num[i] /\ p1.num[i] <= p1.den
    /\ calls = 1 => (p1_old = p1 /\ b = 1)

\* C9: when the pool has been created and no worker has yet run a trial, no
\* two workers hold the same random state.
C9_WorkersSeededApart ==
  (pc = "map" /\ outqueue = <<>>) =>
    \A v \in DOMAIN wrng : \A w \in DOMAIN wrng : v # w => wrng[v] # wrng[w]

\* C10: in parallel mode Z is untouched while the workers run; the
\* coordinator's loop then writes each column once, in index order, and
\* column x holds exactly the result of task x whatever the order in which
\* the workers finished.
C10_ColumnsByTaskIndex ==
  parallel # None =>
    /\ pc \in {"pool", "map"} =>
         /\ Z = Zeros(n_features, n_bootstraps)
         /\ \A k \in DOMAIN recorded : recorded[k] = 0
    /\ pc \in {"assemble", "threshold"} =>
         /\ \A k \in DOMAIN recorded : recorded[k] = (IF k < b THEN 1 ELSE 0)
         /\ \A k \in 0 .. (n_bootstraps - 1) :
              ColumnIs(Z, k, IF k < b THEN ResultOf(outqueue, k) ELSE {})
    /\ pc = "threshold" => b = n_bootstraps

\* the coordinator is done and some worker finished a later task before an
\* earlier one with a different result
C10_Witness ==
  /\ parallel # None
  /\ pc = "threshold"
  /\ \E e \in 1 .. Len(outqueue) :
       /\ outqueue[e][1] # e - 1
       /\ outqueue[e][2] # outqueue[outqueue[e][1] + 1][2]
====
